---- MODULE Spec2Model ----
(***************************************************************************)
(* A model of the textrefine score engine: the /evaluation handler, the    *)
(* four analyzer services with their result caches, and the GlobalScore    *)
(* aggregate.                                                              *)
(*                                                                         *)
(* Scores are fixed-point integers: a component score s in [0,1] is the    *)
(* integer 10000*s (four decimals, the precision the services round to),   *)
(* a weight w is the integer 100*w, and a global score is the integer      *)
(* 1000000*score, so that the weighted sum is exact.                       *)
(***************************************************************************)
EXTENDS Integers, Sequences, FiniteSets, TLC

VARIABLES
    skip,        \* CoherenceService.skip, fixed by __init__
    corrCache,   \* lru_cache of CorrectnessService._compute_score, LRU first
    cohCache,    \* lru_cache of CoherenceService._analyze, LRU first
    readCache,   \* ReadabilityService._analyze_cache, a set of entries
    last,        \* what the most recent operation was given and what it did
    gs,          \* a GlobalScore object's four component fields
    gsScore,     \* the value read from GlobalScore.score, or Unread
    nextFiller,  \* how many of the filler texts have been analysed so far
    recency,     \* when the probe text was last analysed, counted in fillers
    args,        \* the arguments of a scoring function looked at on its own
    returned,    \* what that function returned or raised, or Unread
    inflight     \* the requests being handled at once: position and locals

vars ==
    <<skip, corrCache, cohCache, readCache, last, gs, gsScore, nextFiller,
      recency, args, returned, inflight>>

----------------------------------------------------------------------------
(* Python values *)

None == [kind |-> "None"]

Unread == [kind |-> "Unread"]

Return(v) == [raised |-> FALSE, value |-> v, exc |-> "none"]

Raise(e) == [raised |-> TRUE, value |-> None, exc |-> e]

Min(a, b) == IF a <= b THEN a ELSE b

Max(a, b) == IF a >= b THEN a ELSE b

\* Python's round() of the quotient a / b (b > 0): to the nearest integer,
\* a tie going to the even one.  \div rounds down and % is never negative.
RoundDiv(a, b) ==
    LET q == a \div b
        r == a % b
    IN  IF 2 * r < b THEN q
        ELSE IF 2 * r > b THEN q + 1
        ELSE IF q % 2 = 0 THEN q ELSE q + 1

----------------------------------------------------------------------------
(* src/models.py *)

CORRECTNESS_WEIGHT == 30

COHERENCE_WEIGHT == 25

VOCABULARY_WEIGHT == 25

READABILITY_WEIGHT == 20

MIN_WORD_COUNT == 20

\* The weighted sum with the vocabulary and readability weights exchanged,
\* for comparison with ComputeScore
GlobalScoreSwappedWeights(g) ==
    IF g.coherence.kind # "None"
    THEN VOCABULARY_WEIGHT * g.correctness.score
         + CORRECTNESS_WEIGHT * g.vocabulary.score
         + READABILITY_WEIGHT * g.readability.score
         + COHERENCE_WEIGHT * g.coherence.score
    ELSE 0

\* GlobalScore._compute_score.  The conditional expression binds more loosely
\* than +, so the whole four-term sum is its first branch and 0 its second.
ComputeScore(g) ==
    IF g.coherence.kind # "None"
    THEN CORRECTNESS_WEIGHT * g.correctness.score
         + VOCABULARY_WEIGHT * g.vocabulary.score
         + READABILITY_WEIGHT * g.readability.score
         + COHERENCE_WEIGHT * g.coherence.score
    ELSE 0

GlobalScore(coherence, correctness, readability, vocabulary) ==
    [coherence |-> coherence, correctness |-> correctness,
     readability |-> readability, vocabulary |-> vocabulary]

----------------------------------------------------------------------------
(* Texts.  A text is known by an identity and by what the code reads of    *)
(* it: len, its length in characters (0 for ""), wc, the number of         *)
(* whitespace-separated words, len(text.split()), and kept, the number of  *)
(* its alphabetic tokens that are not stop words, and metrics, what textstat *)
(* reads off it.                                                           *)

\* The textstat readings of a text: Flesch reading ease in points, Dale-Chall
\* score in tenths, mean words per sentence in words.
ReadabilityMetric(flesch_reading_ease, dale_chall_score, avg_words_per_sentence) ==
    [flesch_reading_ease |-> flesch_reading_ease,
     dale_chall_score |-> dale_chall_score,
     avg_words_per_sentence |-> avg_words_per_sentence]

Text(id, len, wc, kept, metrics) ==
    [id |-> id, len |-> len, wc |-> wc, kept |-> kept, metrics |-> metrics]

NoText == Text(0, 0, 0, 0, ReadabilityMetric(100, 0, 0))

\* One word short of the gate, exactly at the gate, and past it.
TShort == Text(1, 5 * (MIN_WORD_COUNT - 1), MIN_WORD_COUNT - 1, 9,
               ReadabilityMetric(90, 40, 12))

TMin ==
    Text(2, 5 * MIN_WORD_COUNT, MIN_WORD_COUNT, 10, ReadabilityMetric(60, 72, 18))

TLong ==
    Text(3, 5 * (MIN_WORD_COUNT + 5), MIN_WORD_COUNT + 5, 12,
         ReadabilityMetric(35, 95, 27))

Texts == {TShort, TMin, TLong}

\* The texts given to the coherence service called on its own
CoherenceTexts == {TMin}

NoTopic == "None"

Topics == {NoTopic, "energy"}

NoAudience == "None"

Audiences == {NoAudience, "children"}

----------------------------------------------------------------------------
(* src/commons/models.py *)

ErrorCategory ==
    {"GRAMMAR_RULES", "MECHANICS", "SPELLING_TYPING", "WORD_USAGE",
     "MEANING_LOGIC", "STYLISTIC_ISSUES", "CONTEXTUAL_STYLE"}

severity(c) ==
    CASE c = "GRAMMAR_RULES" -> 4
      [] c = "MECHANICS" -> 2
      [] c = "SPELLING_TYPING" -> 2
      [] c = "WORD_USAGE" -> 3
      [] c = "MEANING_LOGIC" -> 5
      [] c = "STYLISTIC_ISSUES" -> 2
      [] c = "CONTEXTUAL_STYLE" -> 1

from_language_tool_category(category) ==
    IF category \in {"GRAMMAR", "CASING"} THEN "GRAMMAR_RULES"
    ELSE IF category \in {"PUNCTUATION", "TYPOGRAPHY", "COMPOUNDING"}
    THEN "MECHANICS"
    ELSE IF category \in {"TYPOS"} THEN "SPELLING_TYPING"
    ELSE IF category \in {"CONFUSED_WORDS", "COLLOQUIALISMS", "REDUNDANCY"}
    THEN "WORD_USAGE"
    ELSE IF category \in {"FALSE_FRIENDS", "REGIONALISMS"} THEN "MEANING_LOGIC"
    ELSE IF category \in {"STYLE", "REPETITIONS_STYLE", "REPETITIONS",
                          "PLAIN_ENGLISH", "MISC"}
    THEN "STYLISTIC_ISSUES"
    ELSE IF category \in {"WIKIPEDIA", "GENDER_NEUTRALITY"}
    THEN "CONTEXTUAL_STYLE"
    ELSE "STYLISTIC_ISSUES"

\* TextIssue.penalty
penalty(issue) == severity(issue.category)

----------------------------------------------------------------------------
(* The grammar engine.  What it answers to one query is the environment's  *)
(* choice: a list of matches, no answer within the timeout, or a failure.  *)

Match(category, offset, errorLength, replacements) ==
    [category |-> category, offset |-> offset, errorLength |-> errorLength,
     replacements |-> replacements]

MatchTypo == Match("TYPOS", 8, 4, <<"newt", "not", "note", "nook">>)

MatchGrammar == Match("GRAMMAR", 0, 1, <<"correct">>)

MatchLists == {<<>>, <<MatchTypo, MatchGrammar>>}

EngineMatches(m) == [kind |-> "matches", matches |-> m]

EngineTimeout == [kind |-> "timeout", matches |-> <<>>]

EngineError == [kind |-> "error", matches |-> <<>>]

EngineOutcomes ==
    {EngineMatches(m) : m \in MatchLists} \cup {EngineTimeout, EngineError}

----------------------------------------------------------------------------
(* src/language_tool/service.py.  An operation's effect is what it returns *)
(* or raises (r) and how many queries it made to the grammar engine (lt).  *)

\* LanguageToolService.check
check(text, outcome) ==
    IF text.len = 0 THEN [r |-> Return(<<>>), lt |-> 0]
    ELSE IF outcome.kind = "matches"
    THEN [r |-> Return(outcome.matches), lt |-> 1]
    ELSE IF outcome.kind = "timeout"
    THEN [r |-> Raise("LanguageToolError"), lt |-> 1]
    ELSE [r |-> Raise("Exception"), lt |-> 1]

FirstN(s, n) == SubSeq(s, 1, Min(Len(s), n))

TextIssue(match) ==
    [replacements |-> FirstN(match.replacements, 3),
     error_length |-> match.errorLength,
     start_offset |-> match.offset,
     category |-> from_language_tool_category(match.category)]

\* LanguageToolService.get_text_issues
get_text_issues(text, outcome) ==
    LET c == check(text, outcome)
    IN  IF c.r.raised THEN c
        ELSE [r |-> Return([i \in 1..Len(c.r.value) |-> TextIssue(c.r.value[i])]),
              lt |-> c.lt]

----------------------------------------------------------------------------
(* functools.lru_cache(maxsize): a sequence of entries, the least recently *)
(* used first.  A hit moves the entry to the most recent end; a miss calls *)
(* the function and, when it returns, stores what it returned, evicting    *)
(* the least recently used entry of a full cache.  A call that raises      *)
(* stores nothing.                                                         *)

LruIndex(cache, key) ==
    IF \E i \in 1..Len(cache) : cache[i].key = key
    THEN CHOOSE i \in 1..Len(cache) : cache[i].key = key
    ELSE 0

LruHit(cache, key) == LruIndex(cache, key) # 0

LruRemove(cache, i) == SubSeq(cache, 1, i - 1) \o SubSeq(cache, i + 1, Len(cache))

LruTouch(cache, key) ==
    LET i == LruIndex(cache, key)
    IN  Append(LruRemove(cache, i), cache[i])

\* A store that never evicts, for comparison with LruStore
LruStoreNoEviction(cache, key, value, maxsize) ==
    Append(cache, [key |-> key, value |-> value])

LruStore(cache, key, value, maxsize) ==
    IF Len(cache) >= maxsize
    THEN Append(Tail(cache), [key |-> key, value |-> value])
    ELSE Append(cache, [key |-> key, value |-> value])

\* What the wrapper does with the value its function returned after a miss:
\* under the lock again, it stores the value unless another thread has
\* stored one for the key in the meantime.
LruStoreAfterMiss(cache, key, value, maxsize) ==
    IF LruHit(cache, key) THEN cache
    ELSE LruStore(cache, key, value, maxsize)

\* One call of the wrapped function with `key`; `computed` is the effect the
\* wrapped function has if it is called.  hit tells whether it was not.
LruCall(cache, key, computed, maxsize) ==
    IF LruHit(cache, key)
    THEN [r |-> Return(cache[LruIndex(cache, key)].value), lt |-> 0, llm |-> 0,
          hit |-> TRUE, cache |-> LruTouch(cache, key)]
    ELSE IF computed.r.raised
    THEN [r |-> computed.r, lt |-> computed.lt, llm |-> computed.llm,
          hit |-> FALSE, cache |-> cache]
    ELSE [r |-> computed.r, lt |-> computed.lt, llm |-> computed.llm,
          hit |-> FALSE,
          cache |-> LruStore(cache, key, computed.r.value, maxsize)]

----------------------------------------------------------------------------
(* src/correctness/service.py *)

CORRECTNESS_CACHE_MAXSIZE == 128

RECURSIVE SumPenalty(_)
SumPenalty(issues) ==
    IF issues = <<>> THEN 0
    ELSE penalty(issues[1]) + SumPenalty(Tail(issues))

\* An aggregation that keeps the penalty of a category's latest issue instead
\* of summing, for comparison with Categories
RECURSIVE CategoriesLatestPenalty(_, _)
CategoriesLatestPenalty(issues, acc) ==
    IF issues = <<>> THEN acc
    ELSE LET issue == issues[1]
             at == IF \E i \in 1..Len(acc) : acc[i].category = issue.category
                   THEN CHOOSE i \in 1..Len(acc) : acc[i].category = issue.category
                   ELSE 0
         IN  IF at # 0
             THEN CategoriesLatestPenalty(Tail(issues),
                     [acc EXCEPT ![at] = [category |-> issue.category,
                                          count |-> @.count + 1,
                                          penalty |-> penalty(issue)]])
             ELSE CategoriesLatestPenalty(Tail(issues),
                     Append(acc, [category |-> issue.category, count |-> 1,
                                  penalty |-> penalty(issue)]))

\* The categories dict of _score_text_issues after the loop, in insertion
\* order: one entry per category, with its count and its summed penalty.
RECURSIVE Categories(_, _)
Categories(issues, acc) ==
    IF issues = <<>> THEN acc
    ELSE LET issue == issues[1]
             at == IF \E i \in 1..Len(acc) : acc[i].category = issue.category
                   THEN CHOOSE i \in 1..Len(acc) : acc[i].category = issue.category
                   ELSE 0
         IN  IF at # 0
             THEN Categories(Tail(issues),
                     [acc EXCEPT ![at] = [category |-> issue.category,
                                          count |-> @.count + 1,
                                          penalty |-> @.penalty + penalty(issue)]])
             ELSE Categories(Tail(issues),
                     Append(acc, [category |-> issue.category, count |-> 1,
                                  penalty |-> penalty(issue)]))

CorrectnessResult(score, word_count, normalized_penalty, issues, breakdown) ==
    [kind |-> "CorrectnessResult", score |-> score, word_count |-> word_count,
     normalized_penalty |-> normalized_penalty, issues |-> issues,
     breakdown |-> breakdown]

\* A scoring whose penalty is not divided by the word count, for comparison
\* with score_text_issues
ScoreTextIssuesUnnormalized(text, issues) ==
    LET word_count == text.wc
    IN  IF word_count = 0 THEN CorrectnessResult(0, 0, 0, <<>>, <<>>)
        ELSE LET total_penalty == SumPenalty(issues)
                 normalized_penalty == 10000 * total_penalty
                 score == RoundDiv(10000 * 10000, 10000 + normalized_penalty)
             IN  CorrectnessResult(score, word_count, normalized_penalty,
                                   issues, Categories(issues, <<>>))

\* A scoring that gives a text of no words the score 1.0, for comparison
\* with score_text_issues
ScoreTextIssuesEmptyPerfect(text, issues) ==
    LET word_count == text.wc
    IN  IF word_count = 0 THEN CorrectnessResult(10000, 0, 0, <<>>, <<>>)
        ELSE LET total_penalty == SumPenalty(issues)
                 normalized_penalty ==
                     RoundDiv(10000 * total_penalty, Max(1, word_count))
                 score == RoundDiv(10000 * 10000, 10000 + normalized_penalty)
             IN  CorrectnessResult(score, word_count, normalized_penalty,
                                   issues, Categories(issues, <<>>))

\* CorrectnessService._score_text_issues
score_text_issues(text, issues) ==
    LET word_count == text.wc
    IN  IF word_count = 0 THEN CorrectnessResult(0, 0, 0, <<>>, <<>>)
        ELSE LET total_penalty == SumPenalty(issues)
                 normalized_penalty ==
                     RoundDiv(10000 * total_penalty, Max(1, word_count))
                 score == RoundDiv(10000 * 10000, 10000 + normalized_penalty)
             IN  CorrectnessResult(score, word_count, normalized_penalty,
                                   issues, Categories(issues, <<>>))

\* CorrectnessService._compute_score_impl: both except clauses return None.
compute_score_impl(text, outcome) ==
    LET g == get_text_issues(text, outcome)
    IN  IF g.r.raised THEN [r |-> Return(None), lt |-> g.lt, llm |-> 0]
        ELSE [r |-> Return(score_text_issues(text, g.r.value)), lt |-> g.lt,
              llm |-> 0]

\* An analyze that calls _compute_score_impl directly, for comparison with
\* CorrectnessAnalyze
CorrectnessAnalyzeUncached(cache, text, outcome) ==
    LET c == compute_score_impl(text, outcome)
    IN  [r |-> c.r, lt |-> c.lt, llm |-> 0, hit |-> FALSE, cache |-> cache]

\* CorrectnessService.analyze, on the cache `cache`
CorrectnessAnalyze(cache, text, outcome) ==
    LruCall(cache, text, compute_score_impl(text, outcome),
            CORRECTNESS_CACHE_MAXSIZE)

----------------------------------------------------------------------------
(* The LLM.  What it answers to one call is the environment's choice: a    *)
(* reply that is a JSON object (which satisfies the CoherenceResult schema *)
(* or not), a reply that is not JSON, or a failure of the call, with a     *)
(* client error or with another error.                                     *)
(* An Optional number is a sequence of length 0 or 1.                      *)

CoherenceResult(score, text_coherence, topic_coherence, feedback, confidence) ==
    [kind |-> "CoherenceResult", score |-> score,
     text_coherence |-> text_coherence, topic_coherence |-> topic_coherence,
     feedback |-> feedback, confidence |-> confidence]

LlmReply(result) == [kind |-> "reply", result |-> result]

LlmBadJson == [kind |-> "bad_json", result |-> None]

\* JSON objects that violate the schema: a score above 1, a negative
\* topic_coherence, a confidence above 1, and an object without confidence.
LlmBadSchema ==
    {LlmReply(CoherenceResult(12000, 7500, <<>>, "flow", 9000)),
     LlmReply(CoherenceResult(7500, 7500, <<-1000>>, "topic", 9000)),
     LlmReply(CoherenceResult(7500, 7500, <<>>, "flow", 10001)),
     LlmReply([kind |-> "CoherenceResult", score |-> 7500,
               text_coherence |-> 7500, topic_coherence |-> <<>>,
               feedback |-> "flow"])}

LlmFailure == [kind |-> "client_error", result |-> None]

LlmOtherFailure == [kind |-> "server_error", result |-> None]

LlmOutcomes ==
    {LlmReply(CoherenceResult(7500, 7500, <<>>, "flow", 9000)),
     LlmReply(CoherenceResult(6600, 8000, <<6000>>, "topic", 10000)),
     LlmBadJson, LlmFailure, LlmOtherFailure} \cup LlmBadSchema

----------------------------------------------------------------------------
(* src/coherence/coherence_analyzer.py, src/coherence/service.py *)

COHERENCE_CACHE_MAXSIZE == 128

\* Field(..., ge=0, le=1)
InUnit(x) == 0 <= x /\ x <= 10000

\* A validation that lets any number through as score, for comparison with
\* ValidCoherenceResult
ValidCoherenceResultAnyScore(obj) ==
    /\ {"score", "text_coherence", "feedback", "confidence"} \subseteq DOMAIN obj
    /\ InUnit(obj.text_coherence)
    /\ InUnit(obj.confidence)
    /\ \A i \in 1..Len(obj.topic_coherence) : InUnit(obj.topic_coherence[i])

\* The validation CoherenceResult(**obj) makes: the required fields are
\* there and every number is within [0, 1].
ValidCoherenceResult(obj) ==
    /\ {"score", "text_coherence", "feedback", "confidence"} \subseteq DOMAIN obj
    /\ InUnit(obj.score)
    /\ InUnit(obj.text_coherence)
    /\ InUnit(obj.confidence)
    /\ \A i \in 1..Len(obj.topic_coherence) : InUnit(obj.topic_coherence[i])

\* CoherenceAnalyzer._analyze_coherence: one call of the LLM, then
\* CoherenceResult(**json.loads(response.text))
analyze_coherence(text, topic, llm) ==
    IF llm.kind = "reply"
    THEN IF ValidCoherenceResult(llm.result)
         THEN [r |-> Return(llm.result), lt |-> 0, llm |-> 1]
         ELSE [r |-> Raise("ValidationError"), lt |-> 0, llm |-> 1]
    ELSE IF llm.kind = "bad_json"
    THEN [r |-> Raise("JSONDecodeError"), lt |-> 0, llm |-> 1]
    ELSE IF llm.kind = "client_error"
    THEN [r |-> Raise("ClientError"), lt |-> 0, llm |-> 1]
    ELSE [r |-> Raise("ServerError"), lt |-> 0, llm |-> 1]

\* CoherenceAnalyzer.analyze_text
analyze_text(text, topic, llm) ==
    IF text.wc = 0
    THEN [r |-> Return(CoherenceResult(0, 0, <<0>>, "", 10000)), lt |-> 0, llm |-> 0]
    ELSE analyze_coherence(text, topic, llm)

\* CoherenceService.analyze, of a service constructed with skip = skipped
CoherenceAnalyze(skipped, cache, text, topic, llm) ==
    IF skipped
    THEN [r |-> Return(None), lt |-> 0, llm |-> 0, hit |-> FALSE, cache |-> cache]
    ELSE IF text.wc = 0
    THEN [r |-> Return(CoherenceResult(0, 0,
                          IF topic # NoTopic THEN <<0>> ELSE <<>>,
                          "Empty text provided for analysis", 10000)),
          lt |-> 0, llm |-> 0, hit |-> FALSE, cache |-> cache]
    ELSE LruCall(cache, <<text, topic>>, analyze_text(text, topic, llm),
                 COHERENCE_CACHE_MAXSIZE)

----------------------------------------------------------------------------
(* src/readability/service.py.  _analyze_cache is a dict: a set of         *)
(* entries, one per key, to which analyze only ever adds.                  *)

\* ReadabilityService._cap_metric
cap_metric(metric) ==
    ReadabilityMetric(Max(0, Min(100, metric.flesch_reading_ease)),
                      Max(0, Min(100, metric.dale_chall_score)),
                      Max(0, metric.avg_words_per_sentence))

\* ReadabilityService._calculate_metrics
calculate_metrics(text) ==
    IF text.wc = 0 THEN ReadabilityMetric(100, 0, 0)
    ELSE cap_metric(text.metrics)

\* ReadabilityService._generate_issues_and_suggestions: the issues (each
\* comes with one suggestion)
generate_issues(metrics) ==
    (IF metrics.flesch_reading_ease < 20
        THEN <<"Extremely difficult to read">>
     ELSE IF metrics.flesch_reading_ease < 30
        THEN <<"Very difficult to read">>
     ELSE IF metrics.flesch_reading_ease < 50
        THEN <<"Difficult to read">>
     ELSE <<>>)
    \o (IF metrics.dale_chall_score >= 90
           THEN <<"Very difficult vocabulary">>
        ELSE IF metrics.dale_chall_score >= 70
           THEN <<"Advanced vocabulary">>
        ELSE <<>>)
    \o (IF metrics.avg_words_per_sentence > 25
           THEN <<"Long average sentence length">>
        ELSE IF metrics.avg_words_per_sentence > 20
           THEN <<"Slightly long average sentence length">>
        ELSE <<>>)
    \o (IF metrics.avg_words_per_sentence < 10
           THEN <<"Short, choppy sentences">>
        ELSE <<>>)

\* The unit of the normalised metrics: 1.0 is Unit, so that fre / 100,
\* (dale_chall - 4.9) / 5.1 and |avg_words - 17.5| / 30 are whole numbers.
Unit == 51 * 6000

abs(n) == IF n < 0 THEN -n ELSE n

\* ReadabilityService._normalize_metric
normalize_metric(fre, dale_chall, avg_words) ==
    ReadabilityMetric(
        Max(0, Min(Unit, (Unit \div 100) * fre)),
        Max(0, Min(Unit, Unit - (Unit \div 51) * (dale_chall - 49))),
        Min(Unit, (Unit \div 60) * abs(2 * avg_words - 35)))

\* ReadabilityService._calculate_composite_score, in hundredths of Unit.
\* Its conditions read the normalised metrics m, all of which are at most 1.
\* sentence_score as _calculate_composite_score computes it from m
sentence_score(m) ==
    IF m.avg_words_per_sentence <= 15 * Unit THEN Unit
    ELSE IF m.avg_words_per_sentence <= 25 * Unit
    THEN Unit - (m.avg_words_per_sentence - 15 * Unit) \div 10
    ELSE Max(Unit \div 10,
             Unit - (m.avg_words_per_sentence - 25 * Unit) \div 20)

\* The weighted average of the three components, times 1.2, capped at 1
weighted_base_score(m) ==
    Min(100 * Unit, 72 * m.flesch_reading_ease + 24 * m.dale_chall_score
                      + 24 * sentence_score(m))

\* Whether the difficulty penalty is applied
very_difficult(m) == m.flesch_reading_ease < 30 * Unit

difficulty_penalty(m) == 20 * (Unit - m.flesch_reading_ease \div 30)

calculate_composite_score(fre, dale_chall, avg_words) ==
    LET m == normalize_metric(fre, dale_chall, avg_words)
        base_score ==
            IF very_difficult(m)
            THEN Max(10 * Unit, weighted_base_score(m) - difficulty_penalty(m))
            ELSE weighted_base_score(m)
    IN  Max(0, Min(100 * Unit, base_score))

\* commons.utils.round_score of a value in hundredths of Unit: rounded to two
\* decimals, given in ten-thousandths
round_score(score) == 100 * RoundDiv(score, Unit)

ReadabilityResult(text, metrics, score, issues) ==
    [kind |-> "ReadabilityResult", of |-> text.id,
     flesch_reading_ease |-> metrics.flesch_reading_ease,
     dale_chall_score |-> metrics.dale_chall_score,
     avg_words_per_sentence |-> metrics.avg_words_per_sentence,
     score |-> score, issues |-> issues, target_audience |-> <<>>,
     audience_appropriate |-> <<>>, audience_adjusted_score |-> <<>>,
     audience_issues |-> <<>>]

\* ReadabilityService._analyze_impl
analyze_impl(text) ==
    IF text.wc = 0
    THEN ReadabilityResult(text, ReadabilityMetric(100, 0, 0), 10000,
                           <<"Empty text provided">>)
    ELSE LET metrics == calculate_metrics(text)
         IN  ReadabilityResult(
                 text, metrics,
                 round_score(calculate_composite_score(
                                 metrics.flesch_reading_ease,
                                 metrics.dale_chall_score,
                                 metrics.avg_words_per_sentence)),
                 generate_issues(metrics))

----------------------------------------------------------------------------
(* src/readability/models.py *)

\* str.lower of an audience tag
Lower(audience) ==
    IF audience = "Children" THEN "children"
    ELSE IF audience = "Academic" THEN "academic"
    ELSE audience

\* AUDIENCE_GRADE_LEVELS.get(audience.lower(), (6, 12)): <<min, max>>
AUDIENCE_GRADE_LEVELS(audience) ==
    LET a == Lower(audience)
    IN  IF a = "children" THEN <<1, 6>>
        ELSE IF a = "teenagers" THEN <<7, 12>>
        ELSE IF a = "young_adults" THEN <<11, 14>>
        ELSE IF a = "general" THEN <<6, 12>>
        ELSE IF a = "business" THEN <<10, 14>>
        ELSE IF a = "professional" THEN <<12, 16>>
        ELSE IF a = "academic" THEN <<14, 20>>
        ELSE <<6, 12>>

\* The step function from the Dale-Chall score (in tenths) to a grade
text_grade(dale_chall_score) ==
    IF dale_chall_score <= 49 THEN 4
    ELSE IF dale_chall_score <= 59 THEN 6
    ELSE IF dale_chall_score <= 69 THEN 8
    ELSE IF dale_chall_score <= 79 THEN 10
    ELSE IF dale_chall_score <= 89 THEN 12
    ELSE IF dale_chall_score <= 99 THEN 14
    ELSE 16

TooBasic == "The text may be too basic for the target academic/professional audience."

TooSimple == "The text may be too simple for the target audience."

AppropriatelyComplex == "The text uses appropriately complex language for an academic/professional audience."

HighlySpecialized == "The text uses highly specialized language typically found in academic or expert-level content."

TooComplex == "The text may be too complex for the target audience."

WellMatched == "Text complexity is well-matched for the audience."

ProfessionalOrAcademic(audience) == audience \in {"professional", "academic"}

\* The branch text_grade < min_grade
EvaluateBelow(result, audience) ==
    [result EXCEPT !.audience_appropriate = <<FALSE>>,
                   !.audience_adjusted_score = <<result.score>>,
                   !.audience_issues =
                       IF ProfessionalOrAcademic(audience)
                       THEN <<TooBasic>> ELSE <<TooSimple>>]

\* The branch text_grade > max_grade, with the penalty subtracted and no
\* floor under the difference
EvaluateAboveUnfloored(result, audience, grade, max_grade) ==
    IF ProfessionalOrAcademic(audience)
    THEN [result EXCEPT
              !.audience_appropriate = <<TRUE>>,
              !.audience_adjusted_score =
                  <<Min(10000, result.score
                                 + Min(2000, (grade - max_grade) * 300))>>,
              !.audience_issues = <<AppropriatelyComplex>>]
    ELSE [result EXCEPT
              !.audience_appropriate = <<FALSE>>,
              !.audience_adjusted_score =
                  <<result.score - Min(3000, (grade - max_grade) * 500)>>,
              !.audience_issues =
                  IF grade >= 14 THEN <<HighlySpecialized>>
                  ELSE <<TooComplex>>]

\* The branch text_grade > max_grade
EvaluateAbove(result, audience, grade, max_grade) ==
    IF ProfessionalOrAcademic(audience)
    THEN [result EXCEPT
              !.audience_appropriate = <<TRUE>>,
              !.audience_adjusted_score =
                  <<Min(10000, result.score
                                 + Min(2000, (grade - max_grade) * 300))>>,
              !.audience_issues = <<AppropriatelyComplex>>]
    ELSE [result EXCEPT
              !.audience_appropriate = <<FALSE>>,
              !.audience_adjusted_score =
                  <<Max(1000, result.score
                                - Min(3000, (grade - max_grade) * 500))>>,
              !.audience_issues =
                  IF grade >= 14 THEN <<HighlySpecialized>>
                  ELSE <<TooComplex>>]

\* The branch min_grade <= text_grade <= max_grade, were the boosted score
\* written over the raw score as well
EvaluateWithinRescored(result, audience, grade, min_grade) ==
    LET boost == IF ProfessionalOrAcademic(audience) /\ grade > min_grade + 2
                 THEN 4000 ELSE 2000
        adjusted == Min(10000, result.score
                                 + Min(boost, (grade - min_grade) * 200))
    IN  [result EXCEPT
             !.audience_appropriate = <<TRUE>>,
             !.audience_adjusted_score = <<adjusted>>,
             !.score = adjusted,
             !.audience_issues = <<>>]

\* The branch min_grade <= text_grade <= max_grade
EvaluateWithin(result, audience, grade, min_grade) ==
    LET boost == IF ProfessionalOrAcademic(audience) /\ grade > min_grade + 2
                 THEN 4000 ELSE 2000
    IN  [result EXCEPT
             !.audience_appropriate = <<TRUE>>,
             !.audience_adjusted_score =
                 <<Min(10000, result.score
                                + Min(boost, (grade - min_grade) * 200))>>,
             !.audience_issues = <<>>]

\* ReadabilityResult.evaluate_for_audience
evaluate_for_audience(result, audience) ==
    IF audience = NoAudience THEN result
    ELSE LET window == AUDIENCE_GRADE_LEVELS(audience)
             grade == text_grade(result.dale_chall_score)
             targeted == [result EXCEPT !.target_audience = <<audience>>]
             judged ==
                 IF grade < window[1] THEN EvaluateBelow(targeted, audience)
                 ELSE IF grade > window[2]
                 THEN EvaluateAbove(targeted, audience, grade, window[2])
                 ELSE EvaluateWithin(targeted, audience, grade, window[1])
         IN  IF ProfessionalOrAcademic(audience)
                /\ judged.audience_appropriate = <<TRUE>>
             THEN [judged EXCEPT
                       !.audience_issues = @ \o <<WellMatched>>]
             ELSE judged

----------------------------------------------------------------------------
(* src/readability/service.py: ReadabilityService.analyze *)

READABILITY_LRU_MAXSIZE == 128

DictHas(cache, key) == \E e \in cache : e.key = key

DictGet(cache, key) == (CHOOSE e \in cache : e.key = key).value

DictSet(cache, key, value) ==
    {e \in cache : e.key # key} \cup {[key |-> key, value |-> value]}

\* ReadabilityService.analyze, were the audience left out of the cache key
ReadabilityAnalyzeKeyedByText(cache, text, audience) ==
    LET cache_key == <<text, NoAudience>>
    IN  IF DictHas(cache, cache_key)
        THEN [r |-> Return(DictGet(cache, cache_key)), lt |-> 0, llm |-> 0,
              hit |-> TRUE, cache |-> cache]
        ELSE LET result == evaluate_for_audience(analyze_impl(text), audience)
             IN  [r |-> Return(result), lt |-> 0, llm |-> 0, hit |-> FALSE,
                  cache |-> DictSet(cache, cache_key, result)]

\* ReadabilityService.analyze.  The lru_cache wrapper self._analyze made by
\* __init__ is never called: the result is computed by _analyze_impl itself
\* and kept in the dict.
ReadabilityAnalyze(cache, text, audience) ==
    LET cache_key == <<text, audience>>
    IN  IF DictHas(cache, cache_key)
        THEN [r |-> Return(DictGet(cache, cache_key)), lt |-> 0, llm |-> 0,
              hit |-> TRUE, cache |-> cache]
        ELSE LET result == evaluate_for_audience(analyze_impl(text), audience)
             IN  [r |-> Return(result), lt |-> 0, llm |-> 0, hit |-> FALSE,
                  cache |-> DictSet(cache, cache_key, result)]

----------------------------------------------------------------------------
(* src/vocabulary.  What the checkers read off a text is its tokens: how   *)
(* many are alphabetic (alpha), and, of the alphabetic tokens that are no  *)
(* stop words (the kept words, tokens), which words they are, where they   *)
(* stand, and how many are distinct (unique).  Weights are in tenths,      *)
(* scores in ten-thousandths.                                              *)

RARE_WORDS_WEIGHT == 15

MID_WORDS_WEIGHT == 10

COMMON_WORDS_WEIGHT == 5

UNKNOWN_WORDS_WEIGHT == -2

WordBands(common, mid, rare, unknown) ==
    [common |-> common, mid |-> mid, rare |-> rare, unknown |-> unknown]

\* The band zipf_frequency(word) falls in, for the words of the texts
ZipfBand(word) ==
    IF word \in {"time", "people"} THEN "common"
    ELSE IF word \in {"quantum", "computing"} THEN "mid"
    ELSE IF word \in {"superposition", "quantums"} THEN "rare"
    ELSE "unknown"

\* A kept word of a text and the offset it stands at
Token(word, offset) == [word |-> word, offset |-> offset]

\* n tokens of one word, at the offsets from + 10, from + 20, ...
Repeated(word, n, from) == [i \in 1..n |-> Token(word, from + 10 * i)]

\* A text whose kept words are bands.common common words, bands.mid mid
\* words, bands.rare rare words and bands.unknown unknown words
VocabText(id, len, stop, unique, bands) ==
    LET kept == bands.common + bands.mid + bands.rare + bands.unknown
    IN  [id |-> id, len |-> len, wc |-> kept + stop, kept |-> kept,
         metrics |-> ReadabilityMetric(100, 0, kept + stop),
         alpha |-> kept + stop, unique |-> unique,
         tokens |-> Repeated("time", bands.common, 0)
                    \o Repeated("quantum", bands.mid, 100)
                    \o Repeated("superposition", bands.rare, 200)
                    \o Repeated("computinng", bands.unknown, 300)]

\* The kept words of a text; of a text known by its counts only, kept times
\* a common word
Tokens(text) ==
    IF "tokens" \in DOMAIN text THEN text.tokens
    ELSE Repeated("time", text.kept, 0)

\* LexicalDiversityCalculator.compute
lexical_diversity_compute(text) ==
    IF text.kept = 0 THEN [ttr |-> 0, word_count |-> 0, unique_count |-> 0]
    ELSE [ttr |-> RoundDiv(10000 * text.unique, text.kept),
          word_count |-> text.kept, unique_count |-> text.unique]

\* SophisticationChecker._compute_with_linear, on weighted_score =
\* weighted / (10 * word_count) and meaningful_ratio = meaningful /
\* word_count: round(min(1.0, weighted_score * (0.5 + 0.5 * ratio)), 4)
compute_with_linear(weighted, meaningful, word_count) ==
    LET num == weighted * (word_count + meaningful)
        den == 20 * word_count * word_count
    IN  IF num >= den THEN 10000 ELSE RoundDiv(10000 * num, den)

\* SophisticationChecker.compute_sophistication_score, method "linear"
compute_sophistication_score(words, word_count) ==
    compute_with_linear(words.common * COMMON_WORDS_WEIGHT
                            + words.mid * MID_WORDS_WEIGHT
                            + words.rare * RARE_WORDS_WEIGHT
                            + words.unknown * UNKNOWN_WORDS_WEIGHT,
                        words.rare + words.mid, word_count)

SophisticationResult(score, words, word_count) ==
    [kind |-> "SophisticationResult", score |-> score,
     common_count |-> words.common, mid_count |-> words.mid,
     rare_count |-> words.rare, word_count |-> word_count]

\* An element of replacement_words is known by what iterating over it
\* yields: a tuple (word, replacement) yields its two strings, a TextIssue
\* its seven (field name, value) pairs.
Iterated(issue) ==
    <<<<"message", "">>, <<"replacements", issue.replacements>>,
      <<"error_text", "">>, <<"error_length", issue.error_length>>,
      <<"start_offset", issue.start_offset>>, <<"category", issue.category>>,
      <<"rule_issue_type", "">>>>

IteratedAll(issues) == [i \in DOMAIN issues |-> Iterated(issues[i])]

\* `for replacement_word, _ in replacement_words`, run for one word until a
\* pair matches it: unpacking an element that does not yield exactly two
\* values raises ValueError
UnpackRaises(word, replacement_words) ==
    \E k \in DOMAIN replacement_words :
        /\ Len(replacement_words[k]) # 2
        /\ \A j \in 1..(k - 1) :
               Len(replacement_words[j]) = 2 => replacement_words[j][1] # word

\* The word a kept word is classified as: the second string of the first
\* pair whose first string it equals, else itself
Substituted(word, replacement_words) ==
    LET Matches(k) == /\ Len(replacement_words[k]) = 2
                      /\ replacement_words[k][1] = word
    IN  IF \E k \in DOMAIN replacement_words : Matches(k)
        THEN LET k == CHOOSE k \in DOMAIN replacement_words :
                          Matches(k) /\ \A j \in 1..(k - 1) : ~Matches(j)
             IN  replacement_words[k][2]
        ELSE word

\* sophistication_words: how many of the kept words come to stand in each
\* band
Classified(tokens, replacement_words) ==
    LET In(band) ==
            Cardinality({i \in DOMAIN tokens :
                ZipfBand(Substituted(tokens[i].word, replacement_words))
                    = band})
    IN  WordBands(In("common"), In("mid"), In("rare"), In("unknown"))

\* SophisticationChecker.evaluate(text, replacement_words)
SophisticationEvaluate(text, replacement_words) ==
    IF text.len = 0 /\ replacement_words = <<>>
    THEN Return(SophisticationResult(0, WordBands(0, 0, 0, 0), 0))
    ELSE IF Tokens(text) = <<>>
    THEN Return(SophisticationResult(0, WordBands(0, 0, 0, 0), 0))
    ELSE IF \E i \in DOMAIN Tokens(text) :
                UnpackRaises(Tokens(text)[i].word, replacement_words)
    THEN Raise("ValueError")
    ELSE LET words == Classified(Tokens(text), replacement_words)
         IN  Return(SophisticationResult(
                        compute_sophistication_score(words, Len(Tokens(text))),
                        words, Len(Tokens(text))))

PrecisionCategories == {"WORD_USAGE", "STYLISTIC_ISSUES"}

RECURSIVE RelevantIssues(_)
RelevantIssues(issues) ==
    IF issues = <<>> THEN <<>>
    ELSE IF issues[1].category \in PrecisionCategories
    THEN <<issues[1]>> \o RelevantIssues(Tail(issues))
    ELSE RelevantIssues(Tail(issues))

PrecisionResult(score, word_count, normalized_penalty, issues) ==
    [kind |-> "PrecisionResult", score |-> score, word_count |-> word_count,
     normalized_penalty |-> normalized_penalty, issues |-> issues]

\* PrecisionChecker.evaluate(text): it asks the grammar engine for the issues
PrecisionEvaluate(text, outcome) ==
    LET g == get_text_issues(text, outcome)
    IN  IF g.r.raised THEN [r |-> g.r, lt |-> g.lt, llm |-> 0]
        ELSE LET relevant_issues == RelevantIssues(g.r.value)
                 word_count == text.alpha
                 normalized_penalty ==
                     RoundDiv(10000 * SumPenalty(relevant_issues),
                              Max(word_count, 1))
             IN  [r |-> Return(IF word_count = 0
                               THEN PrecisionResult(0, 0, 0, <<>>)
                               ELSE PrecisionResult(10000 - normalized_penalty,
                                                    word_count,
                                                    normalized_penalty,
                                                    relevant_issues)),
                  lt |-> g.lt, llm |-> 0]

\* VocabularyEvaluator.evaluate: lexical diversity, then the sophistication
\* of the text given the issue list as replacement_words, then
\* self.precision_checker.evaluate(text, issues).  PrecisionChecker.evaluate
\* is declared evaluate(self, text), so that call raises TypeError before the
\* body (which queries the grammar engine itself) runs.  issues in the
\* effect is the list as the call leaves it: the evaluator and the checkers
\* only iterate over it.
VocabularyEvaluate(text, issues) ==
    IF SophisticationEvaluate(text, IteratedAll(issues)).raised
    THEN [r |-> Raise("ValueError"), lt |-> 0, llm |-> 0, issues |-> issues]
    ELSE [r |-> Raise("TypeError"), lt |-> 0, llm |-> 0, issues |-> issues]

\* VocabularyService.analyze
VocabularyAnalyze(text, issues) == VocabularyEvaluate(text, issues)

----------------------------------------------------------------------------
(* src/api/endpoints/evaluation.py *)

DetailTooShort == "Text is too short for evaluation (minimum 20 words required)."

DetailTimeout == "Server timeout. Please try again."

DetailInternal == "Internal server error, please try again."

\* str(e) of the exceptions that reach the last except clause
ExceptionMessage(exc) ==
    IF exc = "AttributeError"
    THEN "'NoneType' object has no attribute 'issues'"
    ELSE IF exc = "ServerError" THEN "503 UNAVAILABLE"
    ELSE "upstream error text"

\* The response an exception raised inside the try block ends in: the first
\* except clause that matches it.  detail is the sequence of the parts the
\* detail string is formatted from.
ExceptClauses(exc) ==
    IF exc = "LanguageToolError"
    THEN [status |-> 408, detail |-> <<DetailTimeout>>]
    ELSE IF exc = "JSONDecodeError"
    THEN [status |-> 500, detail |-> <<DetailInternal>>]
    ELSE IF exc \in {"TypeError", "ValueError", "ValidationError"}
    THEN [status |-> 500, detail |-> <<DetailInternal>>]
    ELSE IF exc = "ClientError"
    THEN [status |-> 500, detail |-> <<DetailInternal>>]
    ELSE [status |-> 500, detail |-> <<DetailInternal, ExceptionMessage(exc)>>]

\* A gate that also refuses a text of exactly MIN_WORD_COUNT words, for
\* comparison with TooShort
GateStrictlyAbove(text) == text.wc <= MIN_WORD_COUNT

\* The word gate: whether the handler raises the 400
TooShort(text) == text.wc < MIN_WORD_COUNT

Respond(st, status, detail, body, exc) ==
    [st EXCEPT !.status = status, !.detail = detail, !.body = body,
               !.exc = exc]

Fail(st, exc) ==
    Respond(st, ExceptClauses(exc).status, ExceptClauses(exc).detail, None, exc)

\* One call of an analyzer by the handler: the issue list handed to it
\* (given), what it returned or raised (r), and that list after the call
\* (left)
Step(analyzer, given, r, left) ==
    [analyzer |-> analyzer, given |-> given, r |-> r, left |-> left]

\* An argument that is not the correctness result's issue list, for
\* comparison with VocabularyArgument
VocabularyArgumentNone(correctness) == <<>>

\* The second argument of vocabulary_service.analyze: correctness.issues
VocabularyArgument(correctness) == correctness.issues

\* evaluate_all from the return of correctness_service.analyze on: st is
\* the request so far, c what the correctness analysis returned or raised.
EvaluateAfterCorrectness(st, c, skipped, text, topic, audience, llm) ==
    IF c.raised THEN Fail(st, c.exc)
    \* correctness.issues of None
    ELSE IF c.value.kind = "None" THEN Fail(st, "AttributeError")
    ELSE
    LET v == VocabularyAnalyze(text, VocabularyArgument(c.value))
        st2 == [st EXCEPT !.lt = @ + v.lt,
                          !.invoked = @ \cup {"vocabulary"},
                          !.steps = Append(@,
                              Step("vocabulary", VocabularyArgument(c.value),
                                   v.r, v.issues))]
    IN  IF v.r.raised THEN Fail(st2, v.r.exc)
        ELSE
    LET rd == ReadabilityAnalyze(st.read, text, audience)
        st3 == [st2 EXCEPT !.read = rd.cache,
                           !.invoked = @ \cup {"readability"},
                           !.steps = Append(@,
                               Step("readability", <<>>, rd.r, <<>>))]
        co == CoherenceAnalyze(skipped, st.coh, text, topic, llm)
        st4 == [st3 EXCEPT !.coh = co.cache, !.llm = co.llm,
                           !.invoked = @ \cup {"coherence"},
                           !.steps = Append(@,
                               Step("coherence", <<>>, co.r, <<>>))]
    IN  IF co.r.raised THEN Fail(st4, co.r.exc)
        ELSE LET result == GlobalScore(co.r.value, c.value, rd.r.value,
                                       v.r.value)
             IN  Respond(st4, 200, <<>>,
                         [kind |-> "GlobalScore", global |-> result,
                          score |-> ComputeScore(result)], "none")

\* The request before any analyzer was called, on the caches corr, coh, read
Received(corr, coh, read) ==
    [status |-> 0, detail |-> <<>>, body |-> None, exc |-> "none",
     corr |-> corr, coh |-> coh, read |-> read,
     lt |-> 0, llm |-> 0, hit |-> FALSE, invoked |-> {}, steps |-> <<>>]

\* The request after correctness_service.analyze had the effect c
Analysed(st, c) ==
    [st EXCEPT !.corr = c.cache, !.lt = c.lt, !.hit = c.hit,
               !.invoked = {"correctness"},
               !.steps = <<Step("correctness", <<>>, c.r, <<>>)>>]

\* evaluate_all, one whole request, on a service state (skipped, corr, coh,
\* read).  outcome and llm are what the grammar engine and the LLM answer if
\* they are asked.  The result holds the response (status, detail, body),
\* the exception that ended the request (exc), the caches afterwards, the
\* upstream calls made (lt, llm), the analyzers invoked, the calls made of
\* them in order (steps), and what the correctness cache did (hit).
evaluate_all(skipped, corr, coh, read, text, topic, audience, outcome, llm) ==
    LET st0 == Received(corr, coh, read)
    IN  IF TooShort(text)
        THEN Respond(st0, 400, <<DetailTooShort>>, None, "HTTPException")
        ELSE LET c == CorrectnessAnalyze(corr, text, outcome)
             IN  EvaluateAfterCorrectness(Analysed(st0, c), c.r, skipped, text,
                                          topic, audience, llm)

----------------------------------------------------------------------------
(* The state machine.  last records the most recent operation: which one,  *)
(* its arguments, what the upstreams answered if they were asked (engine,  *)
(* reply), what it returned or raised (r), for a request the response      *)
(* (status, detail) and the exception that ended it (exc), the upstream    *)
(* calls it made (lt, llm), whether its cache lookup hit, the analyzers a   *)
(* request invoked, and the calls it made of them, in order (steps).       *)

NotAsked == [kind |-> "not asked"]

Last(op, text, topic, audience, outcome, llm, eff, r, status, detail, exc, invoked, steps) ==
    [op |-> op, text |-> text, topic |-> topic, audience |-> audience,
     engine |-> IF eff.lt > 0 THEN outcome ELSE NotAsked,
     reply |-> IF eff.llm > 0 THEN llm ELSE NotAsked,
     r |-> r, status |-> status, detail |-> detail, exc |-> exc,
     lt |-> eff.lt, llm |-> eff.llm, hit |-> eff.hit, invoked |-> invoked,
     steps |-> steps]

NoOp ==
    [op |-> "none", text |-> NoText, topic |-> NoTopic, audience |-> NoAudience,
     engine |-> NotAsked, reply |-> NotAsked, r |-> Return(None), status |-> 0,
     detail |-> <<>>, exc |-> "none", lt |-> 0, llm |-> 0, hit |-> FALSE, invoked |-> {},
     steps |-> <<>>]

NoGlobalScore == [kind |-> "None"]

NoArgs == [kind |-> "None"]

NoRequests == <<>>

\* recency: whether the probe text has been analysed, how many fillers had
\* been analysed when it last was (seen), and, right after an analysis of
\* the probe, how many fillers had been analysed since the one before (gap).
NeverAnalysed == [analysed |-> FALSE, seen |-> 0, gap |-> 0]

\* After the module-level construction of the services in evaluation.py:
\* empty caches, and skip set by whether GEMINI_API_KEY is configured.
Init ==
    /\ skip \in BOOLEAN
    /\ corrCache = <<>>
    /\ cohCache = <<>>
    /\ readCache = {}
    /\ last = NoOp
    /\ gs = NoGlobalScore
    /\ gsScore = Unread
    /\ nextFiller = 0
    /\ recency = NeverAnalysed
    /\ args = NoArgs
    /\ returned = Unread
    /\ inflight = NoRequests

\* The answers the environment chooses among: an upstream's answer is chosen
\* only for an operation that asks it (asked is the number of times it
\* does).
EngineAnswers(asked) == IF asked > 0 THEN EngineOutcomes ELSE {EngineTimeout}

LlmAnswers(asked) == IF asked > 0 THEN LlmOutcomes ELSE {LlmBadJson}

\* POST /evaluation
EvaluateAll ==
    \E text \in Texts, topic \in Topics, audience \in Audiences :
    \E outcome \in EngineAnswers(
           evaluate_all(skip, corrCache, cohCache, readCache, text, topic,
                        audience, EngineTimeout, LlmBadJson).lt) :
    \E llm \in LlmAnswers(
           evaluate_all(skip, corrCache, cohCache, readCache, text, topic,
                        audience, outcome, LlmBadJson).llm) :
        \E e \in {evaluate_all(skip, corrCache, cohCache, readCache, text, topic,
                              audience, outcome, llm)} :
            /\ corrCache' = e.corr
            /\ cohCache' = e.coh
            /\ readCache' = e.read
            /\ last' = Last("evaluate_all", text, topic, audience, outcome, llm,
                            e, IF e.status = 200 THEN Return(e.body)
                               ELSE Raise("HTTPException"),
                            e.status, e.detail, e.exc, e.invoked,
                            e.steps)
            /\ UNCHANGED <<skip, gs, gsScore, nextFiller, recency,
                   args, returned, inflight>>

\* correctness_service.analyze(text), called on its own
CorrectnessCall ==
    \E text \in Texts :
    \E outcome \in EngineAnswers(
           CorrectnessAnalyze(corrCache, text, EngineTimeout).lt) :
        \E e \in {CorrectnessAnalyze(corrCache, text, outcome)} :
            /\ corrCache' = e.cache
            /\ last' = Last("correctness", text, NoTopic, NoAudience, outcome,
                            NotAsked, e, e.r, 0, <<>>, e.r.exc, {}, <<>>)
            /\ UNCHANGED <<skip, cohCache, readCache, gs, gsScore, nextFiller, recency,
                   args, returned, inflight>>

\* coherence_service.analyze(text, topic), called on its own
CoherenceCall ==
    \E text \in CoherenceTexts, topic \in Topics :
    \E llm \in LlmAnswers(
           CoherenceAnalyze(skip, cohCache, text, topic, LlmBadJson).llm) :
        \E e \in {CoherenceAnalyze(skip, cohCache, text, topic, llm)} :
            /\ cohCache' = e.cache
            /\ last' = Last("coherence", text, topic, NoAudience, NotAsked, llm,
                            e, e.r, 0, <<>>, e.r.exc, {}, <<>>)
            /\ UNCHANGED <<skip, corrCache, readCache, gs, gsScore, nextFiller, recency,
                   args, returned, inflight>>

Next == EvaluateAll \/ CorrectnessCall \/ CoherenceCall

Spec == Init /\ [][Next]_vars

----------------------------------------------------------------------------
(* GlobalScore.score on its own: every combination of component scores,    *)
(* with and without a coherence result.                                    *)

ScoreValues == {0, 2500, 6600, 10000}

ComponentResult(kind, score) == [kind |-> kind, score |-> score]

InitScore ==
    /\ skip = FALSE
    /\ corrCache = <<>>
    /\ cohCache = <<>>
    /\ readCache = {}
    /\ last = NoOp
    /\ gs \in {GlobalScore(coherence,
                           ComponentResult("CorrectnessResult", c),
                           ComponentResult("ReadabilityResult", r),
                           ComponentResult("VocabularyResult", v)) :
                  coherence \in {None} \cup
                      {ComponentResult("CoherenceResult", h) : h \in ScoreValues},
                  c \in ScoreValues, r \in ScoreValues, v \in ScoreValues}
    /\ gsScore = Unread
    /\ nextFiller = 0
    /\ recency = NeverAnalysed
    /\ args = NoArgs
    /\ returned = Unread
    /\ inflight = NoRequests

\* reading the computed field GlobalScore.score
ReadScore ==
    /\ gsScore = Unread
    /\ gsScore' = [kind |-> "score", value |-> ComputeScore(gs)]
    /\ UNCHANGED <<skip, corrCache, cohCache, readCache, last, gs, nextFiller,
                   recency,
                   args, returned, inflight>>

NextScore == ReadScore

SpecScore == InitScore /\ [][NextScore]_vars

----------------------------------------------------------------------------
(* The caches at their full size.  The probe text TMin is analysed at any  *)
(* time, by a grammar engine that answers as it pleases; in between, the   *)
(* filler texts "Text 1", "Text 2", ... are analysed, each once, in order  *)
(* and without issues (the loop of test_compute_score_cache).              *)

NumFillers == 129

Filler(i) == Text(100 + i, 6, 2, 1, ReadabilityMetric(95, 30, 2))

\* The coherence service takes no part: the services as constructed with a
\* credential.
InitCaches == Init /\ skip = FALSE

\* correctness_service.analyze(TMin)
ProbeCorrectness ==
    \E outcome \in EngineOutcomes :
        \E e \in {CorrectnessAnalyze(corrCache, TMin, outcome)} :
            /\ corrCache' = e.cache
            /\ last' = Last("correctness", TMin, NoTopic, NoAudience, outcome,
                            NotAsked, e, e.r, 0, <<>>, e.r.exc, {}, <<>>)
            /\ recency' = [analysed |-> TRUE, seen |-> nextFiller,
                           gap |-> IF recency.analysed
                                   THEN nextFiller - recency.seen ELSE 0]
            /\ UNCHANGED <<skip, cohCache, readCache, gs, gsScore, nextFiller,
                   args, returned, inflight>>

\* correctness_service.analyze of the next filler text
FillerCorrectness ==
    /\ nextFiller < NumFillers
    /\ \E e \in {CorrectnessAnalyze(corrCache, Filler(nextFiller + 1),
                                    EngineMatches(<<>>))} :
            /\ corrCache' = e.cache
            /\ last' = Last("correctness", Filler(nextFiller + 1), NoTopic,
                            NoAudience, EngineMatches(<<>>), NotAsked, e, e.r,
                            0, <<>>, e.r.exc, {}, <<>>)
    /\ nextFiller' = nextFiller + 1
    /\ recency' = [recency EXCEPT !.gap = 0]
    /\ UNCHANGED <<skip, cohCache, readCache, gs, gsScore,
                   args, returned, inflight>>

NextCorrectnessCache == ProbeCorrectness \/ FillerCorrectness

SpecCorrectnessCache == InitCaches /\ [][NextCorrectnessCache]_vars

\* readability_service.analyze(TMin, audience)
ProbeReadability ==
    \E audience \in Audiences :
        \E e \in {ReadabilityAnalyze(readCache, TMin, audience)} :
            /\ readCache' = e.cache
            /\ last' = Last("readability", TMin, NoTopic, audience, NotAsked,
                            NotAsked, e, e.r, 0, <<>>, e.r.exc, {}, <<>>)
            /\ UNCHANGED <<skip, corrCache, cohCache, gs, gsScore, nextFiller,
                           recency,
                   args, returned, inflight>>

\* readability_service.analyze of the next filler text, with no audience
FillerReadability ==
    /\ nextFiller < NumFillers
    /\ \E e \in {ReadabilityAnalyze(readCache, Filler(nextFiller + 1),
                                    NoAudience)} :
            /\ readCache' = e.cache
            /\ last' = Last("readability", Filler(nextFiller + 1), NoTopic,
                            NoAudience, NotAsked, NotAsked, e, e.r, 0, <<>>, e.r.exc, {}, <<>>)
    /\ nextFiller' = nextFiller + 1
    /\ UNCHANGED <<skip, corrCache, cohCache, gs, gsScore, recency,
                   args, returned, inflight>>

NextReadabilityCache == ProbeReadability \/ FillerReadability

SpecReadabilityCache == InitCaches /\ [][NextReadabilityCache]_vars

----------------------------------------------------------------------------
(* CorrectnessService._compute_score_impl on its own: texts of several     *)
(* word counts, and an engine that answers any list of up to MaxMatches    *)
(* matches, in any order of their offsets.                                 *)

MaxMatches == 3

SeqsUpTo(S, n) == UNION {[1..k -> S] : k \in 0..n}

\* One match per category the issues can get, and one of a category the
\* mapping does not know.
ScoreMatches ==
    {Match("GRAMMAR", 0, 2, <<"is">>),
     Match("PUNCTUATION", 5, 1, <<",">>),
     Match("TYPOS", 9, 4, <<"newt", "not", "note", "nook">>),
     Match("CONFUSED_WORDS", 15, 5, <<"their">>),
     Match("FALSE_FRIENDS", 22, 6, <<>>),
     Match("STYLE", 30, 3, <<"use">>),
     Match("WIKIPEDIA", 36, 2, <<>>),
     Match("SEMANTICS", 40, 4, <<>>)}

ScoreTexts ==
    {Text(201, 5, 1, 1, ReadabilityMetric(95, 30, 1)),
     Text(202, 17, 3, 2, ReadabilityMetric(95, 30, 3)), TMin}

InitCorrectnessScore ==
    /\ skip = FALSE
    /\ corrCache = <<>>
    /\ cohCache = <<>>
    /\ readCache = {}
    /\ last = NoOp
    /\ gs = NoGlobalScore
    /\ gsScore = Unread
    /\ nextFiller = 0
    /\ recency = NeverAnalysed
    /\ args \in {[kind |-> "compute_score", text |-> text,
                  engine |-> EngineMatches(m)] :
                    text \in ScoreTexts, m \in SeqsUpTo(ScoreMatches, MaxMatches)}
    /\ returned = Unread
    /\ inflight = NoRequests

\* self._compute_score_impl(text)
ComputeScoreImpl ==
    /\ args.kind = "compute_score"
    /\ returned = Unread
    /\ returned' = compute_score_impl(args.text, args.engine).r
    /\ UNCHANGED <<skip, corrCache, cohCache, readCache, last, gs, gsScore,
                   nextFiller, recency, args, inflight>>

NextCorrectnessScore == ComputeScoreImpl

SpecCorrectnessScore == InitCorrectnessScore /\ [][NextCorrectnessScore]_vars

----------------------------------------------------------------------------
(* The vocabulary checkers and the evaluator on their own: texts with up   *)
(* to MaxBandWords kept words in each frequency band, with or without a    *)
(* stop word, the empty text among them.                                   *)

MaxBandWords == 2

VocabTexts ==
    {VocabText(300, IF c + m + r + u + stop = 0 THEN 0 ELSE 4, stop,
               IF c + m + r + u = 0 THEN 0 ELSE 1, WordBands(c, m, r, u)) :
        c \in 0..MaxBandWords, m \in 0..MaxBandWords, r \in 0..MaxBandWords,
        u \in 0..MaxBandWords, stop \in 0..1}

\* Matches of the two categories precision counts and of one it does not
PrecisionMatches ==
    {Match("CONFUSED_WORDS", 15, 5, <<"their">>),
     Match("STYLE", 30, 3, <<"use">>),
     Match("GRAMMAR", 0, 2, <<"is">>)}

IssueLists == {<<>>, <<TextIssue(MatchTypo), TextIssue(MatchGrammar)>>}

\* "quantums computinng time": two misspelt words and a common one
MisspeltText ==
    [id |-> 310, len |-> 24, wc |-> 3, kept |-> 3,
     metrics |-> ReadabilityMetric(100, 0, 3), alpha |-> 3, unique |-> 3,
     tokens |-> <<Token("quantums", 0), Token("computinng", 9),
                  Token("time", 20)>>]

\* What the grammar engine reports on words of MisspeltText: a replacement
\* for each misspelt word, and a finding without replacement on the third
MisspeltMatches ==
    {Match("TYPOS", 0, 8, <<"quantum">>),
     Match("TYPOS", 9, 10, <<"computing", "superposition">>),
     Match("GRAMMAR", 20, 4, <<>>)}

MisspeltIssueLists ==
    {[i \in DOMAIN m |-> TextIssue(m[i])] : m \in SeqsUpTo(MisspeltMatches, 2)}

\* Sets of (word, replacement) pairs
ReplacementWords ==
    {<<>>, <<<<"quantums", "quantum">>>>,
     <<<<"computinng", "computing">>, <<"quantums", "quantum">>>>,
     <<<<"time", "superposition">>>>}

InitVocabulary ==
    /\ skip = FALSE
    /\ corrCache = <<>>
    /\ cohCache = <<>>
    /\ readCache = {}
    /\ last = NoOp
    /\ gs = NoGlobalScore
    /\ gsScore = Unread
    /\ nextFiller = 0
    /\ recency = NeverAnalysed
    /\ args \in
         {[kind |-> "lexical_diversity", text |-> t] : t \in VocabTexts}
         \cup {[kind |-> "sophistication", text |-> t,
                 replacement_words |-> w] :
                 t \in VocabTexts \cup {MisspeltText},
                 w \in ReplacementWords}
         \cup {[kind |-> "sophistication_issues", text |-> t, issues |-> i] :
                 t \in {MisspeltText, VocabText(300, 0, 0, 0,
                                                WordBands(0, 0, 0, 0))},
                 i \in MisspeltIssueLists}
         \cup {[kind |-> "precision", text |-> t, engine |-> o] :
                 t \in VocabTexts,
                 o \in {EngineMatches(m) :
                          m \in SeqsUpTo(PrecisionMatches, MaxMatches)}
                       \cup {EngineTimeout}}
         \cup {[kind |-> "vocabulary", text |-> t, issues |-> i] :
                 t \in VocabTexts, i \in IssueLists}
    /\ returned = Unread
    /\ inflight = NoRequests

\* lexical_diversity_checker.compute(text)
LexicalDiversityCall ==
    /\ args.kind = "lexical_diversity"
    /\ returned = Unread
    /\ returned' = Return(lexical_diversity_compute(args.text))
    /\ UNCHANGED <<skip, corrCache, cohCache, readCache, last, gs, gsScore,
                   nextFiller, recency, args, inflight>>

\* sophistication_checker.evaluate(text, replacement_words) with a set of
\* pairs
SophisticationCall ==
    /\ args.kind = "sophistication"
    /\ returned = Unread
    /\ returned' = SophisticationEvaluate(args.text, args.replacement_words)
    /\ UNCHANGED <<skip, corrCache, cohCache, readCache, last, gs, gsScore,
                   nextFiller, recency, args, inflight>>

\* self.sophistication_checker.evaluate(text, issues) as the evaluator
\* calls it, issues being the issue list of the correctness result
SophisticationWithIssues ==
    /\ args.kind = "sophistication_issues"
    /\ returned = Unread
    /\ returned' = SophisticationEvaluate(args.text, IteratedAll(args.issues))
    /\ UNCHANGED <<skip, corrCache, cohCache, readCache, last, gs, gsScore,
                   nextFiller, recency, args, inflight>>

\* precision_checker.evaluate(text)
PrecisionCall ==
    /\ args.kind = "precision"
    /\ returned = Unread
    /\ returned' = PrecisionEvaluate(args.text, args.engine).r
    /\ UNCHANGED <<skip, corrCache, cohCache, readCache, last, gs, gsScore,
                   nextFiller, recency, args, inflight>>

\* vocabulary_evaluator.evaluate(text, issues)
VocabularyCall ==
    /\ args.kind = "vocabulary"
    /\ returned = Unread
    /\ returned' = VocabularyEvaluate(args.text, args.issues).r
    /\ UNCHANGED <<skip, corrCache, cohCache, readCache, last, gs, gsScore,
                   nextFiller, recency, args, inflight>>

NextVocabulary ==
    \/ LexicalDiversityCall
    \/ SophisticationCall
    \/ SophisticationWithIssues
    \/ PrecisionCall
    \/ VocabularyCall

SpecVocabulary == InitVocabulary /\ [][NextVocabulary]_vars

----------------------------------------------------------------------------
(* The readability analysis on its own: a fresh service analyses one text  *)
(* for one audience.  The texts take their textstat readings from grids    *)
(* that hold every threshold of the code and readings beyond the caps; the *)
(* empty text and a text of blanks are among them.                         *)

FleschReadings == {-12, 0, 25, 30, 55, 100, 121}

DaleChallReadings == {0, 49, 50, 59, 69, 70, 79, 89, 90, 99, 100, 104}

SentenceReadings == {0, 9, 15, 18, 23, 30, 60}

\* "" and a text of two blanks
EmptyTexts ==
    {Text(401, 0, 0, 0, ReadabilityMetric(100, 0, 0)),
     Text(402, 2, 0, 0, ReadabilityMetric(100, 0, 0))}

ReadTexts ==
    {Text(400, 40, 8, 4, ReadabilityMetric(f, d, a)) :
        f \in FleschReadings, d \in DaleChallReadings, a \in SentenceReadings}
    \cup EmptyTexts

ReadAudiences ==
    {NoAudience, "children", "teenagers", "young_adults", "general",
     "business", "professional", "academic", "Children", "Academic", "experts"}

InitReadability ==
    /\ skip = FALSE
    /\ corrCache = <<>>
    /\ cohCache = <<>>
    /\ readCache = {}
    /\ last = NoOp
    /\ gs = NoGlobalScore
    /\ gsScore = Unread
    /\ nextFiller = 0
    /\ recency = NeverAnalysed
    /\ args \in {[kind |-> "readability", text |-> t, audience |-> a] :
                    t \in ReadTexts, a \in ReadAudiences}
    /\ returned = Unread
    /\ inflight = NoRequests

\* ReadabilityService().analyze(text, audience)
AnalyzeForAudience ==
    /\ args.kind = "readability"
    /\ returned = Unread
    /\ \E e \in {ReadabilityAnalyze(readCache, args.text, args.audience)} :
           /\ returned' = e.r
           /\ readCache' = e.cache
    /\ UNCHANGED <<skip, corrCache, cohCache, last, gs, gsScore, nextFiller,
                   recency, args, inflight>>

NextReadability == AnalyzeForAudience

SpecReadability == InitReadability /\ [][NextReadability]_vars

----------------------------------------------------------------------------
(* The four analyzers, each a fresh service, given an empty text.          *)

InitEmptyText ==
    /\ skip = FALSE
    /\ corrCache = <<>>
    /\ cohCache = <<>>
    /\ readCache = {}
    /\ last = NoOp
    /\ gs = NoGlobalScore
    /\ gsScore = Unread
    /\ nextFiller = 0
    /\ recency = NeverAnalysed
    /\ args \in
         {[kind |-> "correctness", text |-> t, engine |-> o] :
             t \in EmptyTexts, o \in EngineOutcomes}
         \cup {[kind |-> "vocabulary", text |-> t, issues |-> <<>>] :
                 t \in EmptyTexts}
         \cup {[kind |-> "coherence", text |-> t, topic |-> c, llm |-> l] :
                 t \in EmptyTexts, c \in Topics, l \in LlmOutcomes}
         \cup {[kind |-> "readability", text |-> t, audience |-> a] :
                 t \in EmptyTexts, a \in ReadAudiences}
    /\ returned = Unread
    /\ inflight = NoRequests

\* CorrectnessService().analyze(text)
AnalyzeEmptyCorrectness ==
    /\ args.kind = "correctness"
    /\ returned = Unread
    /\ \E e \in {CorrectnessAnalyze(corrCache, args.text, args.engine)} :
           /\ returned' = e.r
           /\ corrCache' = e.cache
    /\ UNCHANGED <<skip, cohCache, readCache, last, gs, gsScore, nextFiller,
                   recency, args, inflight>>

\* VocabularyService().analyze(text)
AnalyzeEmptyVocabulary ==
    /\ args.kind = "vocabulary"
    /\ returned = Unread
    /\ returned' = VocabularyAnalyze(args.text, args.issues).r
    /\ UNCHANGED <<skip, corrCache, cohCache, readCache, last, gs, gsScore,
                   nextFiller, recency, args, inflight>>

\* CoherenceService().analyze(text, topic)
AnalyzeEmptyCoherence ==
    /\ args.kind = "coherence"
    /\ returned = Unread
    /\ \E e \in {CoherenceAnalyze(skip, cohCache, args.text, args.topic,
                                  args.llm)} :
           /\ returned' = e.r
           /\ cohCache' = e.cache
    /\ UNCHANGED <<skip, corrCache, readCache, last, gs, gsScore, nextFiller,
                   recency, args, inflight>>

\* ReadabilityService().analyze(text, audience)
AnalyzeEmptyReadability ==
    /\ args.kind = "readability"
    /\ returned = Unread
    /\ \E e \in {ReadabilityAnalyze(readCache, args.text, args.audience)} :
           /\ returned' = e.r
           /\ readCache' = e.cache
    /\ UNCHANGED <<skip, corrCache, cohCache, last, gs, gsScore, nextFiller,
                   recency, args, inflight>>

NextEmptyText ==
    \/ AnalyzeEmptyCorrectness
    \/ AnalyzeEmptyVocabulary
    \/ AnalyzeEmptyCoherence
    \/ AnalyzeEmptyReadability

SpecEmptyText == InitEmptyText /\ [][NextEmptyText]_vars

----------------------------------------------------------------------------
(* Requests handled at once.  evaluate_all is a plain def, which the       *)
(* framework runs in a worker thread per request, so the handlers of       *)
(* NumRequests requests interleave.  A handler is cut where another thread *)
(* can run in between: the lru_cache wrapper looks the text up under its   *)
(* lock, calls _compute_score_impl (which queries the grammar engine)      *)
(* outside the lock, and stores the value under the lock again.            *)

NumRequests == 2

Requests == 1..NumRequests

ConcurrentTexts == {TShort, TMin, TLong}

Request(text, topic, audience) ==
    [pc |-> "received", text |-> text, topic |-> topic, audience |-> audience,
     c |-> Unread, lt |-> 0, hit |-> FALSE, status |-> 0, exc |-> "none"]

InitConcurrent ==
    /\ skip \in BOOLEAN
    /\ corrCache = <<>>
    /\ cohCache = <<>>
    /\ readCache = {}
    /\ last = NoOp
    /\ gs = NoGlobalScore
    /\ gsScore = Unread
    /\ nextFiller = 0
    /\ recency = NeverAnalysed
    /\ args = NoArgs
    /\ returned = Unread
    /\ inflight \in [Requests -> {Request(t, NoTopic, a) :
                                     t \in ConcurrentTexts, a \in Audiences}]

\* The handler up to the wrapper's lookup: the word gate, then the lookup
Lookup ==
    \E i \in Requests :
        LET q == inflight[i]
        IN  /\ q.pc = "received"
            /\ IF TooShort(q.text)
               THEN /\ inflight' = [inflight EXCEPT
                                        ![i].pc = "responded",
                                        ![i].status = 400,
                                        ![i].exc = "HTTPException"]
                    /\ UNCHANGED corrCache
               ELSE IF LruHit(corrCache, q.text)
               THEN /\ inflight' = [inflight EXCEPT
                           ![i].pc = "analysed",
                           ![i].hit = TRUE,
                           ![i].c = Return(
                               corrCache[LruIndex(corrCache, q.text)].value)]
                    /\ corrCache' = LruTouch(corrCache, q.text)
               ELSE /\ inflight' = [inflight EXCEPT ![i].pc = "computing"]
                    /\ UNCHANGED corrCache
            /\ UNCHANGED <<skip, cohCache, readCache, last, gs, gsScore,
                           nextFiller, recency, args, returned>>

\* _compute_score_impl after a miss, and the wrapper's store of its value
Compute ==
    \E i \in Requests :
        LET q == inflight[i]
        IN  /\ q.pc = "computing"
            /\ \E outcome \in EngineOutcomes :
               \E k \in {compute_score_impl(q.text, outcome)} :
                   /\ inflight' = [inflight EXCEPT ![i].pc = "analysed",
                                                   ![i].c = k.r,
                                                   ![i].lt = k.lt]
                   /\ corrCache' =
                          IF k.r.raised THEN corrCache
                          ELSE LruStoreAfterMiss(corrCache, q.text, k.r.value,
                                                 CORRECTNESS_CACHE_MAXSIZE)
            /\ UNCHANGED <<skip, cohCache, readCache, last, gs, gsScore,
                           nextFiller, recency, args, returned>>

\* The rest of the handler, from the return of correctness_service.analyze
\* to the response
Finish ==
    \E i \in Requests :
        LET q == inflight[i]
            st == Analysed(Received(corrCache, cohCache, readCache),
                           [r |-> q.c, lt |-> q.lt, llm |-> 0, hit |-> q.hit,
                            cache |-> corrCache])
        IN  /\ q.pc = "analysed"
            /\ \E llm \in LlmAnswers(
                   EvaluateAfterCorrectness(st, q.c, skip, q.text, q.topic,
                                            q.audience, LlmBadJson).llm) :
               \E e \in {EvaluateAfterCorrectness(st, q.c, skip, q.text,
                                                  q.topic, q.audience, llm)} :
                   /\ inflight' = [inflight EXCEPT ![i].pc = "responded",
                                                   ![i].status = e.status,
                                                   ![i].exc = e.exc]
                   /\ cohCache' = e.coh
                   /\ readCache' = e.read
            /\ UNCHANGED <<skip, corrCache, last, gs, gsScore, nextFiller,
                           recency, args, returned>>

NextConcurrent == Lookup \/ Compute \/ Finish

SpecConcurrent == InitConcurrent /\ [][NextConcurrent]_vars

----------------------------------------------------------------------------
(* CorrectnessService._score_text_issues on two inputs, to compare the     *)
(* results: texts of 0, 1, 3 and 20 words, and issue lists of up to        *)
(* MaxMatches issues of a heavy and of a light category.                   *)

MonotoneTexts == ScoreTexts \cup {Text(402, 2, 0, 0, ReadabilityMetric(100, 0, 0))}

MonotoneIssues ==
    {TextIssue(Match("GRAMMAR", 0, 2, <<"is">>)),
     TextIssue(Match("WIKIPEDIA", 36, 2, <<>>))}

InitCorrectnessMonotone ==
    /\ skip = FALSE
    /\ corrCache = <<>>
    /\ cohCache = <<>>
    /\ readCache = {}
    /\ last = NoOp
    /\ gs = NoGlobalScore
    /\ gsScore = Unread
    /\ nextFiller = 0
    /\ recency = NeverAnalysed
    /\ args \in {[kind |-> "score_text_issues", text1 |-> t1, issues1 |-> i1,
                  text2 |-> t2, issues2 |-> i2] :
                    t1 \in MonotoneTexts, t2 \in MonotoneTexts,
                    i1 \in SeqsUpTo(MonotoneIssues, MaxMatches),
                    i2 \in SeqsUpTo(MonotoneIssues, MaxMatches)}
    /\ returned = Unread
    /\ inflight = NoRequests

\* self._score_text_issues(text1, issues1) and
\* self._score_text_issues(text2, issues2)
ScoreTextIssuesTwice ==
    /\ args.kind = "score_text_issues"
    /\ returned = Unread
    /\ returned' = Return(<<score_text_issues(args.text1, args.issues1),
                            score_text_issues(args.text2, args.issues2)>>)
    /\ UNCHANGED <<skip, corrCache, cohCache, readCache, last, gs, gsScore,
                   nextFiller, recency, args, inflight>>

NextCorrectnessMonotone == ScoreTextIssuesTwice

SpecCorrectnessMonotone ==
    InitCorrectnessMonotone /\ [][NextCorrectnessMonotone]_vars

\* src/vocabulary/constants.py: the weights of the three sub-scores, in
\* hundredths
LEXICAL_DIVERSITY_WEIGHT == 30

SOPHISTICATION_WEIGHT == 35

PRECISION_WEIGHT == 35

\* A text whose only word is a stop word, as "The"
StopWordText == VocabText(300, 4, 1, 0, WordBands(0, 0, 0, 0))

----------------------------------------------------------------------------
(* The claims *)

\* C1: when the coherence result is absent, GlobalScore.score is
\* 0.30*correctness.score + 0.25*vocabulary.score + 0.20*readability.score.
C1_ScoreWithoutCoherence ==
    (gsScore.kind = "score" /\ gs.coherence.kind = "None") =>
        gsScore.value = CORRECTNESS_WEIGHT * gs.correctness.score
                        + VOCABULARY_WEIGHT * gs.vocabulary.score
                        + READABILITY_WEIGHT * gs.readability.score

\* C2: when all four component results are present, GlobalScore.score is
\* 0.30*correctness.score + 0.25*vocabulary.score + 0.20*readability.score
\* + 0.25*coherence.score, whatever the four scores are.
C2_ScoreOfFourComponents ==
    (gsScore.kind = "score" /\ gs.coherence.kind # "None") =>
        gsScore.value = CORRECTNESS_WEIGHT * gs.correctness.score
                        + VOCABULARY_WEIGHT * gs.vocabulary.score
                        + READABILITY_WEIGHT * gs.readability.score
                        + COHERENCE_WEIGHT * gs.coherence.score

\* A score read from a GlobalScore that has a coherence result and four
\* component scores among which correctness and vocabulary differ.
C2_Witness ==
    /\ gsScore.kind = "score"
    /\ gs.coherence.kind # "None"
    /\ gs.coherence.score > 0
    /\ gs.readability.score > 0
    /\ gs.correctness.score > gs.vocabulary.score
    /\ gs.vocabulary.score > 0

\* C3: an evaluation request whose text has fewer than 20 words ends with
\* HTTP 400 and the detail "Text is too short for evaluation (minimum 20
\* words required).", with no analyzer invoked and no grammar-engine or LLM
\* call made; a text of 20 words or more is not refused and reaches the
\* correctness analyzer.
C3_WordGate ==
    last.op = "evaluate_all" =>
        IF last.text.wc < 20
        THEN /\ last.status = 400
             /\ last.detail =
                  <<"Text is too short for evaluation (minimum 20 words required).">>
             /\ last.invoked = {}
             /\ last.lt = 0
             /\ last.llm = 0
        ELSE /\ last.status # 400
             /\ "correctness" \in last.invoked

\* A request for a text of 19 words has been refused, while an earlier
\* request for the text of 20 words got its correctness result cached.
C3_Witness ==
    /\ last.op = "evaluate_all"
    /\ last.text.wc = 19
    /\ last.status = 400
    /\ \E i \in 1..Len(corrCache) :
           /\ corrCache[i].key.wc = 20
           /\ corrCache[i].value.kind = "CorrectnessResult"

\* C4: when the grammar-engine call made during correctness analysis times
\* out, the evaluation request ends with HTTP 408 and the detail "Server
\* timeout. Please try again.".
C4_TimeoutIs408 ==
    (last.op = "evaluate_all" /\ last.engine.kind = "timeout") =>
        /\ last.status = 408
        /\ last.detail = <<"Server timeout. Please try again.">>

\* C5: a failed correctness analysis is never cached: right after an
\* analyze(text) during which the grammar engine failed, the next
\* analyze(text) queries the grammar engine again, and returns the result
\* computed from its answer when it answers.
C5_FailureNotCached ==
    [][(/\ last.op = "correctness"
        /\ last.engine.kind \in {"timeout", "error"}
        /\ last'.op = "correctness"
        /\ last'.text = last.text)
       => /\ last'.lt = 1
          /\ last'.engine.kind = "matches" =>
                 last'.r.value.kind = "CorrectnessResult"]_vars

\* C6: of two successive successful analyses with identical input, the
\* second returns a result equal to the first's and calls no upstream, so
\* that the two make at most one upstream call in total: the grammar engine
\* for CorrectnessService.analyze(text), the LLM for
\* CoherenceService.analyze(text, topic).
C6_RepeatedAnalysis ==
    [][/\ (/\ last.op = "correctness"
           /\ ~last.r.raised
           /\ last.r.value.kind = "CorrectnessResult"
           /\ last'.op = "correctness"
           /\ last'.text = last.text)
          => /\ last'.lt = 0
             /\ last.lt + last'.lt <= 1
             /\ last'.r = last.r
       /\ (/\ last.op = "coherence"
           /\ ~last.r.raised
           /\ last.r.value.kind = "CoherenceResult"
           /\ last'.op = "coherence"
           /\ last'.text = last.text
           /\ last'.topic = last.topic)
          => /\ last'.llm = 0
             /\ last.llm + last'.llm <= 1
             /\ last'.r = last.r]_vars

\* The second of two analyses of one text with issues has been answered from
\* the correctness cache, and the coherence cache holds a result as well.
C6_Witness ==
    /\ last.op = "correctness"
    /\ last.hit
    /\ last.lt = 0
    /\ last.r.value.kind = "CorrectnessResult"
    /\ Len(last.r.value.issues) > 0
    /\ Len(cohCache) > 0

\* C7: an evaluation request that passes the word gate and whose text is not
\* in the correctness cache queries the grammar engine exactly once, and
\* when the engine answers, the vocabulary analysis derives its precision
\* sub-score from the issue list handed over by correctness: it returns
\* instead of raising.
C7_SingleEngineQuery ==
    (/\ last.op = "evaluate_all"
     /\ last.text.wc >= 20
     /\ ~last.hit)
    => /\ last.lt = 1
       /\ last.engine.kind = "matches" =>
              /\ "vocabulary" \in last.invoked
              /\ last.exc \notin {"TypeError", "ValueError"}

\* C8: the correctness cache never holds more than 128 entries and evicts
\* in strict least-recently-used order: the probe text is cached exactly
\* while fewer than 128 other distinct texts have been analysed since its
\* last analysis, and an analysis of it after 128 or more others misses the
\* cache, queries the grammar engine once and returns the result computed
\* from the matches the engine gives at that moment.
C8_StrictLru ==
    /\ Len(corrCache) <= 128
    /\ recency.analysed =>
           (LruHit(corrCache, TMin) <=> nextFiller - recency.seen < 128)
    /\ (/\ last.op = "correctness"
        /\ last.text = TMin
        /\ recency.gap >= 128)
       => /\ ~last.hit
          /\ last.lt = 1
          /\ last.engine.kind = "matches" =>
                 last.r.value =
                     score_text_issues(TMin,
                                       get_text_issues(TMin, last.engine).r.value)

\* The probe text has been analysed again after 128 or more other texts,
\* by an engine that now finds issues, and the result carries them.
C8_Witness ==
    /\ last.op = "correctness"
    /\ last.text = TMin
    /\ recency.gap >= 128
    /\ last.lt = 1
    /\ last.engine.kind = "matches"
    /\ Len(last.engine.matches) > 0
    /\ Len(last.r.value.issues) > 0
    /\ Len(corrCache) = 128

\* C9: the readability cache never holds more than 128 (text, audience)
\* entries, whatever sequence of ReadabilityService.analyze calls was made.
C9_ReadabilityCacheBounded ==
    Cardinality(readCache) <= READABILITY_LRU_MAXSIZE

\* C10: with no LLM credential configured, CoherenceService.analyze returns
\* the absent result without calling the LLM, and an evaluation request that
\* passes the word gate and gets an answer from the grammar engine completes
\* with HTTP 200, coherence absent in its body, and no LLM call.
C10_SkippedCoherence ==
    skip =>
        /\ last.op = "coherence" =>
               /\ ~last.r.raised
               /\ last.r.value.kind = "None"
               /\ last.llm = 0
        /\ (/\ last.op = "evaluate_all"
            /\ last.text.wc >= 20
            /\ last.engine.kind = "matches")
           => /\ last.status = 200
              /\ last.llm = 0
              /\ last.r.value.global.coherence.kind = "None"

C12_FailuresPropagate ==
    /\ (/\ last.op = "correctness"
        /\ last.engine.kind \in {"timeout", "error"})
       => last.r.raised
    /\ (/\ last.op = "coherence"
        /\ last.reply.kind \in {"bad_json", "client_error", "server_error"})
       => last.r.raised

\* C13: two failed evaluation requests of the same error kind (the same
\* status: too short, timeout, internal error) get the same detail, whatever
\* the exceptions behind them.
C13_FixedDetails ==
    [][(/\ last.op = "evaluate_all"
        /\ last'.op = "evaluate_all"
        /\ last.status >= 400
        /\ last'.status = last.status)
       => last'.detail = last.detail]_vars

C17_SophisticationInUnit ==
    (returned # Unread /\ args.kind = "sophistication") =>
        /\ ~returned.raised
        /\ 0 <= returned.value.score
        /\ returned.value.score <= 10000

\* C18: the vocabulary score lies in [0,1] for every text and every issue
\* list: the evaluation returns a result, and its score is within the range.
C18_VocabularyInUnit ==
    (returned # Unread /\ args.kind = "vocabulary") =>
        /\ ~returned.raised
        /\ 0 <= returned.value.score
        /\ returned.value.score <= 10000

\* C19, as stated: when the grade of the text (from its Dale-Chall score) is
\* above the audience's window and the audience is neither professional nor
\* academic, the result is marked inappropriate, carries the "too complex"
\* issue, and its audience_adjusted_score is strictly less than its score.
C19_TooComplexBelowScore ==
    (/\ returned # Unread
     /\ args.kind = "readability"
     /\ args.audience # NoAudience
     /\ ~ProfessionalOrAcademic(args.audience)
     /\ text_grade(returned.value.dale_chall_score)
            > AUDIENCE_GRADE_LEVELS(args.audience)[2])
    => /\ returned.value.audience_appropriate = <<FALSE>>
       /\ \E i \in DOMAIN returned.value.audience_issues :
              returned.value.audience_issues[i] = TooComplex
       /\ returned.value.audience_adjusted_score[1] < returned.value.score

\* C19, amended: in that case the result is marked inappropriate and carries
\* one issue, the "too complex" one below grade 14 and the "highly
\* specialized language" one from grade 14 on; the adjusted score is at
\* least 0.1 and at most the score, and strictly less than a score above 0.1.
C19_AboveWindow ==
    (/\ returned # Unread
     /\ args.kind = "readability"
     /\ args.audience # NoAudience
     /\ ~ProfessionalOrAcademic(args.audience)
     /\ text_grade(returned.value.dale_chall_score)
            > AUDIENCE_GRADE_LEVELS(args.audience)[2])
    => LET r == returned.value
       IN  /\ r.audience_appropriate = <<FALSE>>
           /\ r.audience_issues =
                  IF r.dale_chall_score > 89 THEN <<HighlySpecialized>>
                  ELSE <<TooComplex>>
           /\ r.audience_adjusted_score[1] >= 1000
           /\ r.audience_adjusted_score[1] <= r.score
           /\ r.score > 1000 => r.audience_adjusted_score[1] < r.score

\* A text of the highest grade analysed for children: the score is above the
\* floor and the adjusted score is below it
C19_Witness ==
    /\ returned # Unread
    /\ args.kind = "readability"
    /\ args.audience = "children"
    /\ returned.value.dale_chall_score = 100
    /\ returned.value.audience_appropriate = <<FALSE>>
    /\ returned.value.score > 1000
    /\ returned.value.audience_adjusted_score[1] < returned.value.score

\* C20: for an empty text and for a text of blanks every analyzer returns a
\* result with score 0 and raises nothing: the vocabulary result has ttr 0,
\* sophistication 0 and precision 0, and the readability result carries the
\* issue "Empty text provided".
C20_EmptyTextZeroFilled ==
    returned # Unread =>
        /\ ~returned.raised
        /\ returned.value # None
        /\ returned.value.score = 0
        /\ args.kind = "vocabulary" =>
               /\ returned.value.lexical_diversity.ttr = 0
               /\ returned.value.sophistication.score = 0
               /\ returned.value.precision.score = 0
        /\ args.kind = "readability" =>
               \E i \in DOMAIN returned.value.issues :
                   returned.value.issues[i] = "Empty text provided"

\* C21: in every request the vocabulary analysis is called only after the
\* correctness analysis of that request has returned a result; it is given
\* exactly the issue list of that result, and the list is the same after the
\* call.
C21_VocabularyAfterCorrectness ==
    last.op = "evaluate_all" =>
        \A i \in DOMAIN last.steps :
            last.steps[i].analyzer = "vocabulary" =>
                \E j \in 1..(i - 1) :
                    /\ last.steps[j].analyzer = "correctness"
                    /\ ~last.steps[j].r.raised
                    /\ last.steps[j].r.value.kind = "CorrectnessResult"
                    /\ last.steps[i].given = last.steps[j].r.value.issues
                    /\ last.steps[i].left = last.steps[j].r.value.issues

\* A request whose correctness result has issues reached the vocabulary
\* analysis
C21_Witness ==
    /\ last.op = "evaluate_all"
    /\ \E i \in DOMAIN last.steps :
           /\ last.steps[i].analyzer = "vocabulary"
           /\ Len(last.steps[i].given) > 0

\* C22: of two requests with the same text handled at once, at most one
\* queries the grammar engine for the text, and both obtain the same
\* correctness result.
C22_OneEngineQueryPerText ==
    \A i \in Requests, j \in Requests :
        (/\ i # j
         /\ inflight[i].text = inflight[j].text
         /\ inflight[i].c # Unread
         /\ inflight[j].c # Unread)
        => /\ inflight[i].lt + inflight[j].lt <= 1
           /\ inflight[i].c = inflight[j].c

\* Whether the list i1 holds every issue of the list i2, as often as i2 does
ContainsIssues(i1, i2) ==
    \A x \in MonotoneIssues :
        Cardinality({k \in DOMAIN i1 : i1[k] = x})
            >= Cardinality({k \in DOMAIN i2 : i2[k] = x})

\* C23, as stated: for word counts w1 <= w2 and issue lists I1, I2 of which
\* I1 contains every issue of I2, score(w1, I1) <= score(w2, I2); and with
\* the issues held constant, the larger word count has the lower (or the
\* same) normalized penalty.
C23_MonotoneScoreAndPenalty ==
    (/\ returned # Unread
     /\ args.kind = "score_text_issues"
     /\ args.text1.wc <= args.text2.wc
     /\ ContainsIssues(args.issues1, args.issues2))
    => /\ returned.value[1].score <= returned.value[2].score
       /\ args.issues1 = args.issues2 =>
              returned.value[2].normalized_penalty
                  <= returned.value[1].normalized_penalty

\* C23, amended: the score is weakly monotone as stated; the normalized
\* penalty does not rise with the word count from one word on, while a text
\* of no words has normalized penalty 0 and score 0 whatever its issues.
C23_MonotoneScore ==
    (/\ returned # Unread
     /\ args.kind = "score_text_issues"
     /\ args.text1.wc <= args.text2.wc
     /\ ContainsIssues(args.issues1, args.issues2))
    => /\ returned.value[1].score <= returned.value[2].score
       /\ (args.issues1 = args.issues2 /\ args.text1.wc >= 1) =>
              returned.value[2].normalized_penalty
                  <= returned.value[1].normalized_penalty
       /\ args.text1.wc = 0 =>
              /\ returned.value[1].normalized_penalty = 0
              /\ returned.value[1].score = 0

\* The same two issues scored for one word and for twenty words: the longer
\* text has the strictly higher score and the strictly lower penalty
C23_Witness ==
    /\ returned # Unread
    /\ args.kind = "score_text_issues"
    /\ args.text1.wc = 1
    /\ args.text2.wc = 20
    /\ Len(args.issues1) = 2
    /\ args.issues1 = args.issues2
    /\ returned.value[1].score < returned.value[2].score
    /\ returned.value[2].normalized_penalty
           < returned.value[1].normalized_penalty

\* The issues of a list that target a kept word (they start at its offset)
\* and carry at least one replacement, in the list's order
Targeting(token, issues) ==
    SelectSeq(issues, LAMBDA i : i.start_offset = token.offset
                                  /\ i.replacements # <<>>)

\* The word the claim has a kept word classified as
CrossLinked(token, issues) ==
    IF Targeting(token, issues) = <<>> THEN token.word
    ELSE Head(Targeting(token, issues)).replacements[1]

\* C24: the sophistication of a text, evaluated with the issue list of the
\* correctness result as the handler passes it, counts every kept word in
\* the Zipf band of the first replacement of the issue that targets it, or in
\* its own band when no issue with a replacement targets it, and word_count
\* is the number of kept words whatever was substituted.
C24_CrossLinkedBands ==
    (args.kind = "sophistication_issues" /\ returned # Unread) =>
        LET tokens == Tokens(args.text)
            In(band) == Cardinality({i \in DOMAIN tokens :
                            ZipfBand(CrossLinked(tokens[i], args.issues))
                                = band})
        IN  /\ ~returned.raised
            /\ returned.value.common_count = In("common")
            /\ returned.value.mid_count = In("mid")
            /\ returned.value.rare_count = In("rare")
            /\ returned.value.word_count = Len(tokens)

\* C25: the precision result keeps exactly the issues of category WORD_USAGE
\* or STYLISTIC_ISSUES, in order, and its score is
\* max(0, 1 - pen / max(alphabetic word count, 1)), pen being the sum of the
\* severities of the kept issues; the score is never negative.
C25_PrecisionScore ==
    (args.kind = "precision" /\ returned # Unread /\ ~returned.raised) =>
        LET kept == SelectSeq(get_text_issues(args.text, args.engine).r.value,
                              LAMBDA i : i.category \in PrecisionCategories)
            pen == SumPenalty(kept)
        IN  /\ returned.value.issues = kept
            /\ returned.value.score
                 = Max(0, 10000 - RoundDiv(10000 * pen,
                                           Max(args.text.alpha, 1)))
            /\ returned.value.score >= 0

\* C26: the vocabulary evaluation of a text returns a result whose score is
\* 0.30 * ttr + 0.35 * sophistication score + 0.35 * precision score of its
\* three parts, rounded; for a text whose only word is a stop word the parts
\* are 0, 0 and 1 and the score is exactly 0.35.
C26_WeightedVocabularyScore ==
    (args.kind = "vocabulary" /\ returned # Unread) =>
        /\ ~returned.raised
        /\ returned.value.score
             = RoundDiv(LEXICAL_DIVERSITY_WEIGHT
                            * returned.value.lexical_diversity.ttr
                        + SOPHISTICATION_WEIGHT
                            * returned.value.sophistication.score
                        + PRECISION_WEIGHT * returned.value.precision.score,
                        100)
        /\ (args.text = StopWordText /\ args.issues = <<>>) =>
               /\ returned.value.lexical_diversity.ttr = 0
               /\ returned.value.sophistication.score = 0
               /\ returned.value.precision.score = 10000
               /\ returned.value.score = 3500

\* The sentence-length component as the claim has it, from the mean words per
\* sentence of the text
SentenceComponentOf(avg) ==
    IF avg <= 15 THEN Unit
    ELSE IF avg <= 25 THEN Unit - (avg - 15) * (Unit \div 10)
    ELSE Max(Unit \div 10, Unit - (avg - 25) * (Unit \div 20))

\* C27: the sentence-length component that enters the readability score of a
\* text is 1.0 if the text's mean words per sentence avg is at most 15,
\* 1.0 - 0.1 * (avg - 15) for 15 < avg <= 25 and
\* max(0.1, 1.0 - 0.05 * (avg - 25)) beyond; so it is strictly below 1.0 for a
\* text averaging more than 15 and up to 25 words per sentence.
C27_SentenceComponent ==
    (args.kind = "readability" /\ returned # Unread /\ args.text.wc > 0) =>
        LET avg == returned.value.avg_words_per_sentence
            component == sentence_score(normalize_metric(
                             returned.value.flesch_reading_ease,
                             returned.value.dale_chall_score, avg))
        IN  /\ component = SentenceComponentOf(avg)
            /\ (15 < avg /\ avg <= 25) => component < Unit

\* C28: for a text whose Flesch reading ease, on its scale of 0 to 100, is 30
\* or more, no difficulty penalty is applied and the readability score is the
\* weighted base min(1, 1.2 * (0.6 * fre_n + 0.2 * dc_n + 0.2 * sl_n)) with
\* nothing subtracted.
C28_PenaltyOnlyBelowThirty ==
    (/\ args.kind = "readability"
     /\ returned # Unread
     /\ args.text.wc > 0
     /\ returned.value.flesch_reading_ease >= 30) =>
        LET m == normalize_metric(returned.value.flesch_reading_ease,
                                  returned.value.dale_chall_score,
                                  returned.value.avg_words_per_sentence)
        IN  /\ ~very_difficult(m)
            /\ returned.value.score = round_score(weighted_base_score(m))

\* The fields evaluate_for_audience may set
AudienceFields ==
    {"target_audience", "audience_appropriate", "audience_issues",
     "audience_adjusted_score"}

\* C29: the result of an analysis for an audience has the raw score, the
\* metrics and every other field of the analysis of the text as they were;
\* only the four audience fields are set, the adjusted score lies in [0,1]
\* and is within 0.3 of the raw score.  With no audience the four audience
\* fields keep their initial empty values.
C29_AudienceFrame ==
    (args.kind = "readability" /\ returned # Unread) =>
        LET raw == analyze_impl(args.text)
            got == returned.value
        IN  /\ \A f \in (DOMAIN raw) \ AudienceFields : got[f] = raw[f]
            /\ args.audience = NoAudience =>
                   \A f \in AudienceFields : got[f] = <<>>
            /\ args.audience # NoAudience =>
                   /\ got.target_audience = <<args.audience>>
                   /\ Len(got.audience_appropriate) = 1
                   /\ Len(got.audience_adjusted_score) = 1
                   /\ got.audience_adjusted_score[1] \in 0..10000
                   /\ got.audience_adjusted_score[1] - got.score <= 3000
                   /\ got.score - got.audience_adjusted_score[1] <= 3000

\* An analysis for children of a text far above their window: the adjusted
\* score is the raw score less the full 0.3
C29_Witness ==
    /\ args.kind = "readability"
    /\ returned # Unread
    /\ args.audience = "children"
    /\ returned.value.target_audience = <<"children">>
    /\ returned.value.score = analyze_impl(args.text).score
    /\ returned.value.audience_adjusted_score = <<returned.value.score - 3000>>

\* What analyze(text, audience) returns on a service that has analysed
\* nothing yet
FreshReadability(text, audience) ==
    evaluate_for_audience(analyze_impl(text), audience)

\* C30: whatever readability analyses came before, analyze(text, audience)
\* returns what a fresh computation for (text, audience) on an empty cache
\* returns; an analysis for one audience leaves the result kept for the same
\* text with another audience, or with none, as it was.
C30_SameAsFresh ==
    /\ last.op = "readability" =>
           /\ ~last.r.raised
           /\ last.r.value = FreshReadability(last.text, last.audience)
           /\ last.r = ReadabilityAnalyze({}, last.text, last.audience).r
    /\ \A e \in readCache : e.value = FreshReadability(e.key[1], e.key[2])

\* A hit for the text with no audience after an analysis of the same text for
\* children
C30_Witness ==
    /\ last.op = "readability"
    /\ last.hit
    /\ last.text = TMin
    /\ last.audience = NoAudience
    /\ DictHas(readCache, <<TMin, "children">>)
    /\ DictGet(readCache, <<TMin, "children">>) # last.r.value

====
